---- MODULE Spec2Model ----
(***************************************************************************)
(* A model of unversion: the prompt store (store.py) and the usage         *)
(* observer (observer.py).                                                 *)
(*                                                                         *)
(* Python values are modelled as follows.  A str is a sequence of          *)
(* characters (one-character strings); a prompt key is a sequence of code  *)
(* points, so that sorted() has a real lexicographic order to compute.     *)
(* A value parsed from JSON is a record tagged with its Python type in     *)
(* "kind"; a dict keeps its items in file order as <<key, value>> pairs.   *)
(***************************************************************************)
EXTENDS Integers, Sequences, FiniteSets, TLC

\* ---------------------------------------------------------------- bounds

\* Number of PromptStore objects the heap may hold.
MaxObjs == 3
\* Longest template text Prompt.format is applied to.
MaxLen == 6
\* Usage-log ids (the uuids log_usage draws) are 1..NumIds.
NumIds == 2
\* Timestamps of usage-log entries are 1..MaxTime.
MaxTime == 2
\* Number of entries logged before the statistics are read.
MaxRows == 3

\* ------------------------------------------------------------ JSON values

PyNone == [kind |-> "None", s |-> <<>>, items |-> <<>>]
JStr(s) == [kind |-> "str", s |-> s, items |-> <<>>]
JList(xs) == [kind |-> "list", s |-> <<>>, items |-> xs]
JDict(kv) == [kind |-> "dict", s |-> <<>>, items |-> kv]

IsDict(v) == v.kind = "dict"

DictHas(d, k) == \E i \in 1..Len(d.items) : d.items[i][1] = k

\* dict.get(k, default)
DictGet(d, k, default) ==
    IF DictHas(d, k)
    THEN d.items[CHOOSE i \in 1..Len(d.items) : d.items[i][1] = k][2]
    ELSE default

DictKeys(d) == {d.items[i][1] : i \in 1..Len(d.items)}

\* ------------------------------------------------------------------ keys

KeyA == <<97>>
KeyAB == <<97, 98>>
KeyB == <<98>>
Keys == {KeyA, KeyAB, KeyB}

MinOf(a, b) == IF a < b THEN a ELSE b

\* str < str in Python: lexicographic by code point.
LexLess(a, b) ==
    \E i \in 1..(MinOf(Len(a), Len(b)) + 1) :
        /\ \A j \in 1..(i - 1) : a[j] = b[j]
        /\ \/ i > Len(a) /\ i <= Len(b)
           \/ i <= Len(a) /\ i <= Len(b) /\ a[i] < b[i]

\* sorted(S) for a set of distinct keys.
SortedKeys(S) ==
    CHOOSE q \in [1..Cardinality(S) -> S] :
        \A i, j \in 1..Cardinality(S) : i < j => LexLess(q[i], q[j])

\* ----------------------------------------------------------------- texts

TextHello == <<"x", "{", "n", "}">>
TextBye == <<"x">>
Surrogate == "U+D800"
TextSurr == <<Surrogate>>

\* ------------------------------------------------------------ file system

Paths == {"p1", "p2"}
NoPath == "<None>"

FullEntry(text, src) ==
    JDict(<< <<"text", JStr(text)>>, <<"variables", JList(<<"n">>)>>,
             <<"source", JStr(src)>>, <<"notes", JStr(<<"d">>)>> >>)

\* What json.load yields for each well-formed file of the catalogue.
FileJson(f) ==
    CASE f = "good_ab" ->
            JDict(<< <<"version", JStr(<<"2">>)>>,
                     <<"prompts", JDict(<< <<KeyAB, FullEntry(TextHello, <<"t">>)>>,
                                           <<KeyA, FullEntry(TextBye, <<"t">>)>> >>)>> >>)
      [] f = "good_b" ->
            JDict(<< <<"prompts", JDict(<< <<KeyB, JDict(<<>>)>> >>)>> >>)
      [] f = "no_prompts" ->
            JDict(<< <<"version", JStr(<<"3">>)>> >>)
      [] f = "top_list" -> JList(<<>>)
      [] f = "bad_prompts" ->
            JDict(<< <<"version", JStr(<<"9">>)>>, <<"prompts", JList(<<>>)>> >>)
      [] f = "bad_entry" ->
            JDict(<< <<"version", JStr(<<"9">>)>>,
                     <<"prompts", JDict(<< <<KeyB, FullEntry(TextBye, <<"t">>)>>,
                                           <<KeyA, JStr(<<"o">>)>> >>)>> >>)

WellFormedFiles == {"good_ab", "good_b", "no_prompts"}
WrongShapeFiles == {"top_list", "bad_prompts", "bad_entry"}
\* "unreadable": open() fails (the file's mode forbids reading); "no_access":
\* stat() fails with EACCES (a directory above the file is not searchable).
\* Path.exists() then re-raises the OSError on CPython up to 3.13 (the errno is
\* none of ENOENT, ENOTDIR, EBADF, ELOOP) and returns False from 3.14 on.
FileStates ==
    {"missing", "unreadable", "no_access", "malformed"} \cup WellFormedFiles \cup WrongShapeFiles

\* The states the file at each path goes through.
FilesAt(p) == IF p = "p1" THEN FileStates ELSE {"missing", "malformed", "good_b"}

\* ------------------------------------------------------------- PromptStore

Threads == {"t1", "t2"}
NoObs == [call |-> "none", key |-> <<>>, ret |-> <<>>]

VARIABLES
    fs,        \* path -> state of the file there
    heap,      \* sequence of PromptStore objects: [path, prompts, version]
    gstore,    \* store.py's global _store: 0 (None) or an index into heap
    pc,        \* thread -> position
    op,        \* thread -> the call it is running
    self,      \* thread -> the PromptStore object its call works on
    data,      \* thread -> _load's local "data"
    items,     \* thread -> what is left of _load's "for ... in prompts.items()"
    exc,       \* thread -> the exception in flight
    logged,    \* thread -> the level of the last message _load logged in the call
    result,    \* thread -> how its last call ended
    pre,       \* history: thread -> the object's mapping and version at call time
    lastGood,  \* history: object -> prompts object of its last successful load
    goodPath,  \* history: object -> the path of its last successful load
    obs        \* what the last reader call during the running load returned

storeVars == <<fs, heap, gstore, pc, op, self, data, items, exc, logged, result,
               pre, lastGood, goodPath, obs>>

\* PromptStore.__init__, lines 64-66.
EmptyMap == [k \in {} |-> PyNone]
DefaultVersion == JStr(<<"1", ".", "0">>)
NewStore == [path |-> NoPath, prompts |-> EmptyMap, version |-> DefaultVersion]

\* self._prompts[key] = value
MapPut(m, k, v) == [x \in (DOMAIN m) \cup {k} |-> IF x = k THEN v ELSE m[x]]

\* A slip _load could make: prompt_data.get("variables") without a default,
\* which gives None for an entry that has no variables.
MakePromptVariablesNone(key, pd) ==
    [key |-> key,
     text |-> DictGet(pd, "text", JStr(<<>>)),
     variables |-> DictGet(pd, "variables", PyNone),
     source |-> DictGet(pd, "source", JStr(<<"b", "u", "n", "d", "l", "e", "d">>)),
     notes |-> DictGet(pd, "notes", JStr(<<>>))]

\* Prompt(key=..., text=..., ...), lines 98-104: each field is prompt_data.get
\* with the default the code passes.
MakePrompt(key, pd) ==
    [key |-> key,
     text |-> DictGet(pd, "text", JStr(<<>>)),
     variables |-> DictGet(pd, "variables", JList(<<>>)),
     source |-> DictGet(pd, "source", JStr(<<"b", "u", "n", "d", "l", "e", "d">>)),
     notes |-> DictGet(pd, "notes", JStr(<<>>))]

\* PromptStore.get / has / list_keys / __len__, lines 111-121 and 137-139.
StoreGet(o, k) == IF k \in DOMAIN heap[o].prompts THEN heap[o].prompts[k] ELSE PyNone
StoreHas(o, k) == k \in DOMAIN heap[o].prompts
StoreListKeys(o) == SortedKeys(DOMAIN heap[o].prompts)
StoreLen(o) == Cardinality(DOMAIN heap[o].prompts)

Snapshot(o) == [prompts |-> heap[o].prompts, version |-> heap[o].version]

\* Where a thread goes when _load has returned to its caller.
AfterLoad(t) == IF op[t] = "init_store" THEN "assign" ELSE "idle"

\* "except Exception as e", line 108: which exceptions the handler takes.
Catches(e) == TRUE

Set(f, t, v) == [f EXCEPT ![t] = v]

\* PromptStore.init(path), lines 77-78, up to the call of _load.
StoreInit(t, p) ==
    /\ pc[t] = "idle"
    /\ heap' = [heap EXCEPT ![1].path = p]
    /\ pc' = Set(pc, t, "load")
    /\ op' = Set(op, t, "init")
    /\ self' = Set(self, t, 1)
    /\ pre' = Set(pre, t, Snapshot(1))
    /\ result' = Set(result, t, "running")
    /\ logged' = Set(logged, t, "none")
    /\ obs' = NoObs
    /\ UNCHANGED <<fs, gstore, data, items, exc, lastGood, goodPath>>

\* PromptStore.reload(), lines 123-125, up to the call of _load.
StoreReload(t) ==
    /\ pc[t] = "idle"
    /\ pc' = Set(pc, t, "load")
    /\ op' = Set(op, t, "reload")
    /\ self' = Set(self, t, 1)
    /\ pre' = Set(pre, t, Snapshot(1))
    /\ result' = Set(result, t, "running")
    /\ logged' = Set(logged, t, "none")
    /\ obs' = NoObs
    /\ UNCHANGED <<fs, heap, gstore, data, items, exc, lastGood, goodPath>>

\* _load returns normally to its caller.
LoadReturn(t, level) ==
    /\ pc' = Set(pc, t, AfterLoad(t))
    /\ logged' = Set(logged, t, level)
    /\ result' = Set(result, t, IF AfterLoad(t) = "idle" THEN "returned" ELSE result[t])
    /\ data' = Set(data, t, PyNone)
    /\ items' = Set(items, t, <<>>)
    /\ exc' = Set(exc, t, "none")

\* An exception leaves the call: nothing up to the caller handles it.
Propagate(t) ==
    /\ pc' = Set(pc, t, "idle")
    /\ result' = Set(result, t, "raised")
    /\ data' = Set(data, t, PyNone)
    /\ items' = Set(items, t, <<>>)
    /\ exc' = Set(exc, t, "none")

\* An exception is raised inside _load's try block.
LoadRaise(t, e) ==
    /\ pc' = Set(pc, t, "except")
    /\ exc' = Set(exc, t, e)

\* A slip _load could make: self._prompts.clear() before the file is looked
\* for, so that a missing file leaves the store empty.
LoadOpenClearsWhenMissing(t) ==
    /\ pc[t] = "load"
    /\ LET path == heap[self[t]].path
           f == fs[path]
       IN  \/ /\ path = NoPath
              /\ LoadReturn(t, "none")
              /\ UNCHANGED heap
           \/ /\ path # NoPath /\ f \in {"missing", "no_access"}
              /\ LoadReturn(t, "warning")
              /\ heap' = [heap EXCEPT ![self[t]].prompts = EmptyMap]
           \/ /\ path # NoPath /\ f = "no_access"
              /\ Propagate(t)
              /\ UNCHANGED <<heap, logged>>
           \/ /\ path # NoPath /\ f = "unreadable"
              /\ LoadRaise(t, "PermissionError")
              /\ UNCHANGED <<heap, data, items, logged, result>>
           \/ /\ path # NoPath /\ f = "malformed"
              /\ LoadRaise(t, "JSONDecodeError")
              /\ UNCHANGED <<heap, data, items, logged, result>>
           \/ /\ path # NoPath /\ f \in WellFormedFiles \cup WrongShapeFiles
              /\ data' = Set(data, t, FileJson(f))
              /\ pc' = Set(pc, t, "version")
              /\ UNCHANGED <<heap, items, exc, logged, result>>
    /\ UNCHANGED <<fs, gstore, op, self, pre, lastGood, goodPath, obs>>

\* _load, lines 82-91: the path checks, open() and json.load().
LoadOpen(t) ==
    /\ pc[t] = "load"
    /\ LET path == heap[self[t]].path
           f == fs[path]
       IN  \/ /\ path = NoPath
              /\ LoadReturn(t, "none")
           \/ /\ path # NoPath /\ f \in {"missing", "no_access"}
              /\ LoadReturn(t, "warning")
           \/ /\ path # NoPath /\ f = "no_access"
              /\ Propagate(t)
              /\ UNCHANGED logged
           \/ /\ path # NoPath /\ f = "unreadable"
              /\ LoadRaise(t, "PermissionError")
              /\ UNCHANGED <<data, items, logged, result>>
           \/ /\ path # NoPath /\ f = "malformed"
              /\ LoadRaise(t, "JSONDecodeError")
              /\ UNCHANGED <<data, items, logged, result>>
           \/ /\ path # NoPath /\ f \in WellFormedFiles \cup WrongShapeFiles
              /\ data' = Set(data, t, FileJson(f))
              /\ pc' = Set(pc, t, "version")
              /\ UNCHANGED <<items, exc, logged, result>>
    /\ UNCHANGED <<fs, heap, gstore, op, self, pre, lastGood, goodPath, obs>>

\* _load, line 93: self._version = data.get("version", "1.0").
LoadVersion(t) ==
    /\ pc[t] = "version"
    /\ \/ /\ ~IsDict(data[t])
          /\ LoadRaise(t, "AttributeError")
          /\ UNCHANGED heap
       \/ /\ IsDict(data[t])
          /\ heap' = [heap EXCEPT ![self[t]].version =
                          DictGet(data[t], "version", DefaultVersion)]
          /\ pc' = Set(pc, t, "clear")
          /\ UNCHANGED exc
    /\ UNCHANGED <<fs, gstore, op, self, data, items, logged, result, pre, lastGood, goodPath, obs>>

\* _load, lines 94-97: prompts = data.get("prompts", {}); self._prompts.clear();
\* then prompts.items() is evaluated for the loop.
LoadClear(t) ==
    /\ pc[t] = "clear"
    /\ heap' = [heap EXCEPT ![self[t]].prompts = EmptyMap]
    /\ LET prompts == DictGet(data[t], "prompts", JDict(<<>>))
       IN  \/ /\ ~IsDict(prompts)
              /\ LoadRaise(t, "AttributeError")
              /\ UNCHANGED items
           \/ /\ IsDict(prompts)
              /\ items' = Set(items, t, prompts.items)
              /\ pc' = Set(pc, t, "insert")
              /\ UNCHANGED exc
    /\ UNCHANGED <<fs, gstore, op, self, data, logged, result, pre, lastGood, goodPath, obs>>

\* _load, lines 97-106: one turn of the loop, or its end and the info message.
LoadInsert(t) ==
    /\ pc[t] = "insert"
    /\ \/ /\ items[t] = <<>>
          /\ LoadReturn(t, "info")
          /\ lastGood' = [lastGood EXCEPT ![self[t]] =
                              DictGet(data[t], "prompts", JDict(<<>>))]
          /\ goodPath' = [goodPath EXCEPT ![self[t]] = heap[self[t]].path]
          /\ UNCHANGED heap
       \/ /\ items[t] # <<>> /\ ~IsDict(Head(items[t])[2])
          /\ LoadRaise(t, "AttributeError")
          /\ UNCHANGED <<heap, data, items, logged, result, lastGood, goodPath>>
       \/ /\ items[t] # <<>> /\ IsDict(Head(items[t])[2])
          /\ heap' = [heap EXCEPT ![self[t]].prompts =
                          MapPut(@, Head(items[t])[1],
                                 MakePrompt(Head(items[t])[1], Head(items[t])[2]))]
          /\ items' = Set(items, t, Tail(items[t]))
          /\ UNCHANGED <<pc, data, exc, logged, result, lastGood, goodPath>>
    /\ UNCHANGED <<fs, gstore, op, self, pre, obs>>

\* _load, lines 108-109: the handler logs the error and _load returns; an
\* exception the handler does not take leaves the call.
LoadExcept(t) ==
    /\ pc[t] = "except"
    /\ \/ /\ Catches(exc[t])
          /\ LoadReturn(t, "error")
       \/ /\ ~Catches(exc[t])
          /\ Propagate(t)
          /\ UNCHANGED logged
    /\ UNCHANGED <<fs, heap, gstore, op, self, pre, lastGood, goodPath, obs>>

\* A slip init_store could make: the new object is assigned to _store before
\* its constructor has loaded it (_store = PromptStore(); _store.init(path)).
InitStoreNewPublishing(t, p) ==
    /\ pc[t] = "idle"
    /\ Len(heap) < MaxObjs
    /\ heap' = Append(heap, [NewStore EXCEPT !.path = p])
    /\ lastGood' = Append(lastGood, JDict(<<>>))
    /\ goodPath' = Append(goodPath, NoPath)
    /\ gstore' = Len(heap) + 1
    /\ pc' = Set(pc, t, "load")
    /\ op' = Set(op, t, "init_store")
    /\ self' = Set(self, t, Len(heap) + 1)
    /\ pre' = Set(pre, t, [prompts |-> EmptyMap, version |-> DefaultVersion])
    /\ result' = Set(result, t, "running")
    /\ logged' = Set(logged, t, "none")
    /\ UNCHANGED <<fs, data, items, exc, obs>>

\* init_store(path), line 173, up to the call of _load: PromptStore(Path(path))
\* builds a fresh object (lines 64-66) and binds it to the path (line 77).  No
\* other thread can reach the object before line 173 assigns it.
InitStoreNew(t, p) ==
    /\ pc[t] = "idle"
    /\ Len(heap) < MaxObjs
    /\ heap' = Append(heap, [NewStore EXCEPT !.path = p])
    /\ lastGood' = Append(lastGood, JDict(<<>>))
    /\ goodPath' = Append(goodPath, NoPath)
    /\ pc' = Set(pc, t, "load")
    /\ op' = Set(op, t, "init_store")
    /\ self' = Set(self, t, Len(heap) + 1)
    /\ pre' = Set(pre, t, [prompts |-> EmptyMap, version |-> DefaultVersion])
    /\ result' = Set(result, t, "running")
    /\ logged' = Set(logged, t, "none")
    /\ UNCHANGED <<fs, gstore, data, items, exc, obs>>

\* init_store, lines 173-174: the constructor has returned; _store = <the new
\* object>; return _store.
InitStoreAssign(t) ==
    /\ pc[t] = "assign"
    /\ gstore' = self[t]
    /\ pc' = Set(pc, t, "idle")
    /\ result' = Set(result, t, "returned")
    /\ UNCHANGED <<fs, heap, op, self, data, items, exc, logged, pre, lastGood, goodPath, obs>>

FacadeCalls == {"has_prompt", "list_prompts", "get_prompt"}

\* A facade call enters get_store(), line 184: "if _store is None".
GetStoreCheck(t, call, k) ==
    /\ pc[t] = "idle"
    /\ op' = Set(op, t, call)
    /\ self' = Set(self, t, 0)
    /\ items' = Set(items, t, k)
    /\ pc' = Set(pc, t, IF gstore = 0 THEN "lazy" ELSE "got")
    /\ result' = Set(result, t, "running")
    /\ logged' = Set(logged, t, "none")
    /\ UNCHANGED <<fs, heap, gstore, data, exc, pre, lastGood, goodPath, obs>>

\* get_store(), line 185: _store = PromptStore().
GetStoreLazy(t) ==
    /\ pc[t] = "lazy"
    /\ Len(heap) < MaxObjs
    /\ heap' = Append(heap, NewStore)
    /\ lastGood' = Append(lastGood, JDict(<<>>))
    /\ goodPath' = Append(goodPath, NoPath)
    /\ gstore' = Len(heap) + 1
    /\ pc' = Set(pc, t, "got")
    /\ UNCHANGED <<fs, op, self, data, items, exc, logged, result, pre, obs>>

\* get_store(), line 186: return _store (the global is read again).
GetStoreReturn(t) ==
    /\ pc[t] = "got"
    /\ self' = Set(self, t, gstore)
    /\ pc' = Set(pc, t, "use")
    /\ UNCHANGED <<fs, heap, gstore, op, data, items, exc, logged, result, pre,
                   lastGood, goodPath, obs>>

\* has_prompt, list_prompts and get_prompt (without format arguments), lines
\* 202-209, 218, 235: the lookup on the store get_store() returned.
FacadeUse(t) ==
    /\ pc[t] = "use"
    /\ LET o == self[t]
           k == items[t]
       IN  obs' = [call |-> op[t], key |-> k,
                   ret |-> CASE op[t] = "list_prompts" -> StoreListKeys(o)
                             [] op[t] = "has_prompt" -> StoreHas(o, k)
                             [] op[t] = "get_prompt" ->
                                    IF StoreGet(o, k) = PyNone THEN JStr(<<>>)
                                    ELSE StoreGet(o, k).text]
    /\ pc' = Set(pc, t, "idle")
    /\ items' = Set(items, t, <<>>)
    /\ self' = Set(self, t, 0)
    /\ result' = Set(result, t, "returned")
    /\ UNCHANGED <<fs, heap, gstore, op, data, exc, logged, pre, lastGood, goodPath>>

\* The file at a path is rewritten, removed or made unreadable from outside.
\* _load reads the file in one step (LoadOpen), so a change during a call is
\* the same as one before it or after it: files change between calls.
EditFile(p, f) ==
    /\ \A t \in Threads : pc[t] = "idle"
    /\ fs[p] # f
    /\ fs' = [fs EXCEPT ![p] = f]
    /\ UNCHANGED <<heap, gstore, pc, op, self, data, items, exc, logged, result,
                   pre, lastGood, goodPath, obs>>

\* A second thread calls list_keys(), has(k), get(k) or len() on the store while
\* a load is running on it.
Reader(call, k) ==
    /\ pc["t1"] # "idle"
    /\ obs' = [call |-> call, key |-> k,
               ret |-> CASE call = "list_keys" -> StoreListKeys(1)
                         [] call = "has" -> StoreHas(1, k)
                         [] call = "get" -> StoreGet(1, k)
                         [] call = "len" -> StoreLen(1)]
    /\ obs' # obs
    /\ UNCHANGED <<fs, heap, gstore, pc, op, self, data, items, exc, logged, result,
                   pre, lastGood, goodPath>>

\* ------------------------------------------------------------ Prompt.format

VARIABLES
    fmtText,    \* Prompt.text of the prompt format is called on
    fmtKwargs,  \* the keyword arguments, in call order: <<name, value>> pairs
    fmtResult   \* what the call did: [kind, value], kind "none" before the call

fmtVars == <<fmtText, fmtKwargs, fmtResult>>

\* The characters of a template: braces, two variable names and a digit; a
\* name or digit outside braces is literal text.
Alphabet == {"{", "}", "n", "m", "0"}
Names == {"n", "m"}
Values == {<<"A">>, <<"{", "m", "}">>}
Texts == UNION {[1..k -> Alphabet] : k \in 0..MaxLen}
KwargsSet ==
    {<<>>}
    \cup {<< <<a, v>> >> : a \in Names, v \in Values}
    \cup {kw \in {<< <<a, v>>, <<b, w>> >> : a \in Names, b \in Names,
                                             v \in Values, w \in Values} :
              kw[1][1] # kw[2][1]}

KwHas(kw, name) == \E i \in 1..Len(kw) : kw[i][1] = name
KwGet(kw, name) == kw[CHOOSE i \in 1..Len(kw) : kw[i][1] = name][2]

Returned(v) == [kind |-> "returned", value |-> v]
Raised(e) == [kind |-> "raised", value |-> <<e>>]

\* str.format's parse_field: the field name runs to the first "}"; a "{" in
\* it, or the end of the string before "}", is a ValueError (0 here).
RECURSIVE FieldEnd(_, _)
FieldEnd(text, i) ==
    IF i > Len(text) THEN 0
    ELSE IF text[i] = "{" THEN 0
    ELSE IF text[i] = "}" THEN i
    ELSE FieldEnd(text, i + 1)

IsIndex(field) == field = <<>> \/ \A j \in 1..Len(field) : field[j] = "0"

\* str.format(**kw) from position i on, out being the text built so far:
\* "{{" and "}}" give one brace, a single "}" or an unclosed "{" is a
\* ValueError, an empty or numeric field indexes the (empty) positional
\* arguments (IndexError), another field is looked up in kw (KeyError).
RECURSIVE StrFormat(_, _, _, _)
StrFormat(text, i, kw, out) ==
    IF i > Len(text) THEN Returned(out)
    ELSE IF text[i] = "}" THEN
        IF i < Len(text) /\ text[i + 1] = "}"
        THEN StrFormat(text, i + 2, kw, Append(out, "}"))
        ELSE Raised("ValueError")
    ELSE IF text[i] = "{" THEN
        IF i = Len(text) THEN Raised("ValueError")
        ELSE IF text[i + 1] = "{" THEN StrFormat(text, i + 2, kw, Append(out, "{"))
        ELSE LET e == FieldEnd(text, i + 1)
                 field == SubSeq(text, i + 1, e - 1)
             IN  IF e = 0 THEN Raised("ValueError")
                 ELSE IF IsIndex(field) THEN Raised("IndexError")
                 ELSE IF Len(field) = 1 /\ KwHas(kw, field[1])
                      THEN StrFormat(text, e + 1, kw, out \o KwGet(kw, field[1]))
                 ELSE Raised("KeyError")
    ELSE StrFormat(text, i + 1, kw, Append(out, text[i]))

\* str.replace(pat, new) from position i on: every occurrence, left to right,
\* not overlapping.
RECURSIVE Replace(_, _, _, _)
Replace(str, i, pat, new) ==
    IF i > Len(str) THEN <<>>
    ELSE IF i + Len(pat) - 1 <= Len(str) /\ SubSeq(str, i, i + Len(pat) - 1) = pat
         THEN new \o Replace(str, i + Len(pat), pat, new)
         ELSE <<str[i]>> \o Replace(str, i + 1, pat, new)

\* Lines 34-37: the loop over kwargs.items(), from its j-th item on.
RECURSIVE PartialFormat(_, _, _)
PartialFormat(res, kw, j) ==
    IF j > Len(kw) THEN res
    ELSE PartialFormat(Replace(res, 1, <<"{", kw[j][1], "}">>, kw[j][2]), kw, j + 1)

\* "except KeyError as e", line 31.
FormatCatches(e) == e = "KeyError"

\* Prompt.format(**kwargs), lines 25-37.
PromptFormat(text, kw) ==
    IF kw = <<>> THEN Returned(text)
    ELSE LET r == StrFormat(text, 1, kw, <<>>)
         IN  IF r.kind = "returned" THEN r
             ELSE IF FormatCatches(r.value[1]) THEN Returned(PartialFormat(text, kw, 1))
             ELSE r

FormatCall ==
    /\ fmtResult.kind = "none"
    /\ fmtResult' = PromptFormat(fmtText, fmtKwargs)
    /\ UNCHANGED <<fmtText, fmtKwargs>>

\* -------------------------------------------------------------- UsageStore

VARIABLES
    rows,      \* the usage table, in insertion (rowid) order
    lastLog,   \* how the last UsageStore.log call ended: "returned" or the exception
    lastQuery, \* the last query since then and what it returned
    acked      \* history: the rows of the log calls that returned without error

usageVars == <<rows, lastLog, lastQuery, acked>>

NoQuery == [call |-> "none", args |-> <<>>, ret |-> <<>>]

\* The UsageLog dataclass, lines 56-70.
UsageLog(id, ts, key, hash, stage, model, session, vu, success, latency, notes) ==
    [id |-> id, timestamp |-> ts, prompt_key |-> key, prompt_hash |-> hash,
     stage |-> stage, model |-> model, session_id |-> session,
     variables_used |-> vu, success |-> success, latency_ms |-> latency,
     notes |-> notes]

\* None in a nullable text argument or column; None as a prompt_key filter.
NoneText == "<None>"
NoneKey == <<-1>>

\* "if prompt_key:", "if stage:", "if session_id:", lines 200-206: None and the
\* empty string are not applied.
TruthyText(v) == v # NoneText /\ v # ""
TruthyKey(k) == k # NoneKey /\ k # <<>>

\* json.dumps / json.loads of variables_used; a dict holding a value json
\* cannot encode makes dumps raise TypeError.
Serializable(v) == v # "dict:unserializable"
JsonDumps(v) == IF v = "dict:empty" THEN "{}" ELSE "?"
JsonLoads(txt) == IF txt = "{}" THEN "dict:empty" ELSE "?"

\* The parameter tuple of the INSERT, lines 117-129.
RowOf(e) ==
    [id |-> e.id, timestamp |-> e.timestamp, prompt_key |-> e.prompt_key,
     prompt_hash |-> e.prompt_hash, stage |-> e.stage, model |-> e.model,
     session_id |-> e.session_id, variables_used |-> JsonDumps(e.variables_used),
     success |-> IF e.success THEN 1 ELSE 0, latency_ms |-> e.latency_ms,
     notes |-> e.notes]

\* How UsageStore.log(e) ends on a table: the parameters are built (TypeError
\* from json.dumps), then the INSERT runs in its own transaction; the engine
\* may refuse it (OperationalError: locked, full, unwritable) and "id TEXT
\* PRIMARY KEY", line 87, rejects an id already stored (IntegrityError).
LogOutcome(table, e, dbOk) ==
    IF ~Serializable(e.variables_used) THEN "TypeError"
    ELSE IF ~dbOk THEN "OperationalError"
    ELSE IF \E i \in 1..Len(table) : table[i].id = e.id THEN "IntegrityError"
    ELSE "returned"

\* A slip log could make: INSERT OR REPLACE, which overwrites the stored row
\* of the same id.
UsageInsertOrReplace(table, e, dbOk) ==
    IF LogOutcome(table, e, dbOk) = "returned" THEN Append(table, RowOf(e))
    ELSE IF LogOutcome(table, e, dbOk) = "IntegrityError"
         THEN [i \in 1..Len(table) |-> IF table[i].id = e.id THEN RowOf(e) ELSE table[i]]
         ELSE table

\* A slip log could make: the INSERT is executed on a connection that is
\* never committed, so the row is gone when the connection is dropped.
UsageInsertUncommitted(table, e, dbOk) == table

\* The table after UsageStore.log(e), lines 109-130: "with sqlite3.connect"
\* commits the INSERT when the block ends normally and rolls back otherwise.
UsageInsert(table, e, dbOk) ==
    IF LogOutcome(table, e, dbOk) = "returned" THEN Append(table, RowOf(e)) ELSE table

\* UsageStore.log(entry), lines 107-130.  The call is one transaction of the
\* database, which serialises the transactions of all connections: calls from
\* several threads take effect one after the other.
UsageStoreLog(e, dbOk) ==
    /\ rows' = UsageInsert(rows, e, dbOk)
    /\ lastLog' = LogOutcome(rows, e, dbOk)
    /\ lastQuery' = NoQuery
    /\ acked' = IF LogOutcome(rows, e, dbOk) = "returned" THEN acked \cup {RowOf(e)}
                ELSE acked

Range(q) == {q[i] : i \in 1..Len(q)}
\* How many of n rows "LIMIT ?" lets through: a negative limit is no limit.
Limited(limit, n) == IF limit < 0 THEN n ELSE MinOf(limit, n)

\* The orders in which the engine may return the members of S for "ORDER BY
\* <rank> DESC": any order that never puts a smaller rank first (SQL leaves
\* the order of equal ranks open).
Descending(S, rank(_)) ==
    {q \in [1..Cardinality(S) -> S] :
        /\ \A i, j \in 1..Cardinality(S) : i # j => q[i] # q[j]
        /\ \A i, j \in 1..Cardinality(S) : i < j => rank(q[i]) >= rank(q[j])}

\* What get_recent returns for a row: dict(row) with variables_used parsed.
RecentDict(r) == [r EXCEPT !.variables_used = JsonLoads(@)]

\* UsageStore.get_recent, lines 186-221: the results the query may give.
GetRecent(limit, key, stage, session) ==
    LET match == {i \in 1..Len(rows) :
                     /\ TruthyKey(key) => rows[i].prompt_key = key
                     /\ TruthyText(stage) => rows[i].stage = stage
                     /\ TruthyText(session) => rows[i].session_id = session}
        ts(i) == rows[i].timestamp
    IN  {[n \in 1..Limited(limit, Cardinality(match)) |-> RecentDict(rows[q[n]])] :
            q \in Descending(match, ts)}

RowsOf(key) == {i \in 1..Len(rows) : rows[i].prompt_key = key}

\* SUM(latency_ms) / AVG's numerator over the rows numbered in S.
RECURSIVE SumLatency(_)
SumLatency(S) ==
    IF S = {} THEN 0
    ELSE LET x == CHOOSE y \in S : TRUE IN rows[x].latency_ms + SumLatency(S \ {x})

MaxOver(S, f(_)) == CHOOSE v \in {f(x) : x \in S} : \A x \in S : f(x) <= v

\* A slip get_stats could make: the success count taken over the whole table
\* (the "prompt_key = ?" condition left out of the second query).
GetStatsSuccessOfAllKeys(key) ==
    LET total == Cardinality(RowsOf(key))
        ok == Cardinality({i \in 1..Len(rows) : rows[i].success = 1})
        timed == {i \in RowsOf(key) : rows[i].latency_ms > 0}
    IN  [prompt_key |-> key,
         total_usage |-> total,
         success_rate |-> IF total > 0 THEN [num |-> ok * 100, den |-> total]
                          ELSE [num |-> 0, den |-> 1],
         avg_latency_ms |-> IF timed # {} THEN [num |-> SumLatency(timed),
                                                den |-> Cardinality(timed)]
                            ELSE [num |-> 0, den |-> 1]]

\* A slip get_stats could make: the average taken over all rows of the key,
\* as get_top_prompts takes it (the "latency_ms > 0" condition left out).
GetStatsAverageOfAll(key) ==
    LET total == Cardinality(RowsOf(key))
        ok == Cardinality({i \in RowsOf(key) : rows[i].success = 1})
    IN  [prompt_key |-> key,
         total_usage |-> total,
         success_rate |-> IF total > 0 THEN [num |-> ok * 100, den |-> total]
                          ELSE [num |-> 0, den |-> 1],
         avg_latency_ms |-> IF total > 0 THEN [num |-> SumLatency(RowsOf(key)),
                                               den |-> total]
                            ELSE [num |-> 0, den |-> 1]]

\* UsageStore.get_stats, lines 132-184: the counts and the two ratios, each
\* ratio as numerator and denominator.
GetStats(key) ==
    LET total == Cardinality(RowsOf(key))
        ok == Cardinality({i \in RowsOf(key) : rows[i].success = 1})
        timed == {i \in RowsOf(key) : rows[i].latency_ms > 0}
    IN  [prompt_key |-> key,
         total_usage |-> total,
         success_rate |-> IF total > 0 THEN [num |-> ok * 100, den |-> total]
                          ELSE [num |-> 0, den |-> 1],
         avg_latency_ms |-> IF timed # {} THEN [num |-> SumLatency(timed),
                                                den |-> Cardinality(timed)]
                            ELSE [num |-> 0, den |-> 1]]

\* A slip get_top_prompts could make: MIN(timestamp) for last_used.
TopGroupFirstUsed(key) ==
    [prompt_key |-> key,
     usage_count |-> Cardinality(RowsOf(key)),
     success_count |-> Cardinality({i \in RowsOf(key) : rows[i].success = 1}),
     avg_latency |-> [num |-> SumLatency(RowsOf(key)),
                      den |-> Cardinality(RowsOf(key))],
     last_used |-> CHOOSE v \in {rows[i].timestamp : i \in RowsOf(key)} :
                      \A i \in RowsOf(key) : v <= rows[i].timestamp]

\* One group of get_top_prompts' GROUP BY prompt_key, lines 230-237.
TopGroup(key) ==
    LET ts(i) == rows[i].timestamp
    IN  [prompt_key |-> key,
         usage_count |-> Cardinality(RowsOf(key)),
         success_count |-> Cardinality({i \in RowsOf(key) : rows[i].success = 1}),
         avg_latency |-> [num |-> SumLatency(RowsOf(key)),
                          den |-> Cardinality(RowsOf(key))],
         last_used |-> MaxOver(RowsOf(key), ts)]

\* UsageStore.get_top_prompts, lines 223-244: the results the query may give.
GetTopPrompts(limit) ==
    LET groups == {rows[i].prompt_key : i \in 1..Len(rows)}
        count(k) == Cardinality(RowsOf(k))
    IN  {[n \in 1..Limited(limit, Cardinality(groups)) |-> TopGroup(q[n])] :
            q \in Descending(groups, count)}

\* The queries read the table and change nothing.
UsageGetRecent(limit, key, stage, session) ==
    /\ \E ret \in GetRecent(limit, key, stage, session) :
           lastQuery' = [call |-> "get_recent", args |-> <<limit, key, stage, session>>,
                         ret |-> ret]
    /\ UNCHANGED <<rows, lastLog, acked>>

UsageGetStats(key) ==
    /\ lastQuery' = [call |-> "get_stats", args |-> <<key>>, ret |-> GetStats(key)]
    /\ UNCHANGED <<rows, lastLog, acked>>

UsageGetTopPrompts(limit) ==
    /\ \E ret \in GetTopPrompts(limit) :
           lastQuery' = [call |-> "get_top_prompts", args |-> <<limit>>, ret |-> ret]
    /\ UNCHANGED <<rows, lastLog, acked>>

\* ------------------------------------------------------------ log_usage

VARIABLES
    ustore,    \* observer.py's global _usage_store: "None" or "made"
    langfuse,  \* "disabled" (no keys), "unavailable" (no client) or "ready"
    nextUuid,  \* the next id uuid4 gives
    luResult,  \* how the last log_usage call ended
    luWarned,  \* whether it logged the "Failed to log usage" warning
    forwards,  \* the sender threads started: [id, prompt_key, prompt_hash, status]
    luCall     \* history: the last log_usage call: its prompt_key and prompt_text,
               \* the template the active store held for the key (None: no such
               \* key) and the prompt_hash it came to

facadeVars == <<ustore, langfuse, nextUuid, luResult, luWarned, forwards, luCall>>

NoCall == [key |-> <<>>, ptext |-> PyNone, stored |-> PyNone, hash |-> "<none>"]

\* bool(v) of a value read from the prompts file or passed as prompt_text.
TruthyValue(v) ==
    CASE v.kind = "None" -> FALSE
      [] v.kind = "str" -> v.s # <<>>
      [] OTHER -> v.items # <<>>

\* str.encode() (UTF-8, strict) refuses a lone surrogate.
Encodable(chars) == \A i \in 1..Len(chars) : chars[i] # Surrogate

\* hashlib.sha256(b).hexdigest()[:12]
Sha12(chars) ==
    CASE chars = <<>> -> "e3b0c44298fc"
      [] chars = TextBye -> "2d711642b726"
      [] chars = TextHello -> "d126151af88c"
      [] OTHER -> "sha256[:12]"

\* _hash_prompt(text), lines 259-261.
HashPrompt(v) ==
    IF v.kind # "str" THEN Raised("AttributeError")
    ELSE IF ~Encodable(v.s) THEN Raised("UnicodeEncodeError")
    ELSE Returned(Sha12(v.s))

\* get_prompt(key) without format arguments on store object st, lines 202-209.
GetPrompt(st, key) ==
    IF key \in DOMAIN st.prompts THEN st.prompts[key].text ELSE JStr(<<>>)

\* "variables_used or {}", line 347.
OrEmptyDict(vu) == IF vu \in {NoneText, "dict:empty"} THEN "dict:empty" ELSE vu

\* A slip _send_to_langfuse could make: thread.start() followed by
\* thread.join(), so the caller has the outcome of the send when it goes on.
ThreadStartAndJoin(threadOk) == IF threadOk THEN "sent" ELSE "RuntimeError"

\* threading.Thread(target=send_async, daemon=True).start(), lines 295-296:
\* the sender runs on its own from here, or the thread cannot be started.
ThreadStart(threadOk) == IF threadOk THEN "running" ELSE "RuntimeError"

\* A slip log_usage could make: _send_to_langfuse called before, or whatever
\* the outcome of, _get_store().log(entry).
ForwardsWhateverStored(outcome, lf) == lf = "ready"

\* Whether log_usage gets as far as starting a sender for the entry: line 355
\* is reached only when line 354 has returned, and _send_to_langfuse goes on
\* only with LANGFUSE_ENABLED and a client (lines 266-271).
Forwards(outcome, lf) == outcome = "returned" /\ lf = "ready"

\* How the try block of lines 353-358 ends: with the outcome of log, or, when
\* a sender was to be started, with that of thread.start().
TryOutcome(outcome, lf, threadOk) ==
    IF Forwards(outcome, lf) /\ ThreadStart(threadOk) = "RuntimeError"
    THEN "RuntimeError" ELSE outcome

\* The event send_async builds from the entry, lines 275-288.
ForwardOf(entry, status) ==
    [id |-> entry.id, prompt_key |-> entry.prompt_key,
     prompt_hash |-> entry.prompt_hash, status |-> status]

\* log_usage(prompt_key, stage, prompt_text, variables_used=...), lines
\* 299-360, called while no other call is running.
LogUsage(key, stage, ptext, vu, ts, dbOk, threadOk) ==
    /\ \A t \in Threads : pc[t] = "idle"
    /\ nextUuid <= NumIds
    /\ LET lazy == ptext = PyNone /\ gstore = 0
           st == IF gstore = 0 THEN NewStore ELSE heap[gstore]
           text == IF ptext = PyNone THEN GetPrompt(st, key) ELSE ptext
           hash == IF TruthyValue(text) THEN HashPrompt(text) ELSE Returned("unknown")
           entry == UsageLog(nextUuid, ts, key, hash.value, stage, NoneText, NoneText,
                             OrEmptyDict(vu), TRUE, 0, NoneText)
           made == ustore = "made" \/ dbOk
           outcome == IF ~made THEN "OSError" ELSE LogOutcome(rows, entry, dbOk)
       IN  /\ lazy => Len(heap) < MaxObjs
           /\ nextUuid' = nextUuid + 1
           /\ luCall' = [key |-> key, ptext |-> ptext,
                         stored |-> IF key \in DOMAIN st.prompts
                                    THEN st.prompts[key].text ELSE PyNone,
                         hash |-> IF hash.kind = "raised" THEN "<raised>" ELSE hash.value]
           \* lines 332-335: get_prompt -> get_store() builds the empty store
           /\ IF lazy
              THEN /\ heap' = Append(heap, NewStore)
                   /\ lastGood' = Append(lastGood, JDict(<<>>))
                   /\ goodPath' = Append(goodPath, NoPath)
                   /\ gstore' = Len(heap) + 1
              ELSE UNCHANGED <<heap, lastGood, goodPath, gstore>>
           /\ IF hash.kind = "raised"
              \* line 337 is outside the try block: the exception leaves log_usage
              THEN /\ luResult' = hash
                   /\ luWarned' = FALSE
                   /\ UNCHANGED <<ustore, forwards, usageVars>>
              \* lines 353-360
              ELSE /\ ustore' = IF made THEN "made" ELSE ustore
                   /\ rows' = IF made THEN UsageInsert(rows, entry, dbOk) ELSE rows
                   /\ lastLog' = outcome
                   /\ lastQuery' = NoQuery
                   /\ acked' = IF outcome = "returned" THEN acked \cup {RowOf(entry)}
                               ELSE acked
                   /\ forwards' =
                          IF Forwards(outcome, langfuse) /\ ThreadStart(threadOk) # "RuntimeError"
                          THEN forwards \cup {ForwardOf(entry, ThreadStart(threadOk))}
                          ELSE forwards
                   /\ luWarned' = (TryOutcome(outcome, langfuse, threadOk) # "returned")
                   /\ luResult' = Returned(nextUuid)
    /\ UNCHANGED <<fs, pc, op, self, data, items, exc, logged, result, pre, obs,
                   langfuse>>

\* send_async, lines 273-293, on its own thread: the calls on the client
\* return (SendDone) or one of them raises, which is caught and logged at
\* lines 292-293 (SendFail); a sender whose call never returns stays
\* "running" for good.
SendDone(f) ==
    /\ f \in forwards /\ f.status = "running"
    /\ forwards' = (forwards \ {f}) \cup {[f EXCEPT !.status = "sent"]}
    /\ UNCHANGED <<ustore, langfuse, nextUuid, luResult, luWarned, luCall>>

SendFail(f) ==
    /\ f \in forwards /\ f.status = "running"
    /\ forwards' = (forwards \ {f}) \cup {[f EXCEPT !.status = "failed"]}
    /\ UNCHANGED <<ustore, langfuse, nextUuid, luResult, luWarned, luCall>>

\* ------------------------------------------------------------ specifications

IdleThreads ==
    /\ pc = [t \in Threads |-> "idle"]
    /\ op = [t \in Threads |-> "none"]
    /\ self = [t \in Threads |-> 0]
    /\ data = [t \in Threads |-> PyNone]
    /\ items = [t \in Threads |-> <<>>]
    /\ exc = [t \in Threads |-> "none"]
    /\ logged = [t \in Threads |-> "none"]
    /\ result = [t \in Threads |-> "none"]
    /\ pre = [t \in Threads |-> [prompts |-> EmptyMap, version |-> DefaultVersion]]
    /\ obs = NoObs

\* One PromptStore(), not yet bound to a path; thread t1 calls init and reload
\* on it while the files change and a second thread reads it.
StoreInitState ==
    /\ fs = [p \in Paths |-> "missing"]
    /\ heap = <<NewStore>>
    /\ gstore = 0
    /\ lastGood = <<JDict(<<>>)>>
    /\ goodPath = <<NoPath>>
    /\ IdleThreads

StoreStep ==
    \/ \E p \in Paths : StoreInit("t1", p)
    \/ StoreReload("t1")
    \/ LoadOpen("t1")
    \/ LoadVersion("t1")
    \/ LoadClear("t1")
    \/ LoadInsert("t1")
    \/ LoadExcept("t1")
    \/ \E p \in Paths : \E f \in FilesAt(p) : EditFile(p, f)
    \/ \E call \in {"list_keys", "len"} : Reader(call, <<>>)
    \/ \E call \in {"has", "get"}, k \in Keys : Reader(call, k)

\* No store yet (_store is None, line 155); two threads call init_store and
\* the facade's lookups.
GlobalInitState ==
    /\ fs \in {[p \in Paths |-> IF p = "p1" THEN "good_ab" ELSE f] :
                 f \in {"bad_entry", "no_access"}}
    /\ heap = <<>>
    /\ gstore = 0
    /\ lastGood = <<>>
    /\ goodPath = <<>>
    /\ pc = [t \in Threads |-> "idle"]
    /\ op = [t \in Threads |-> "none"]
    /\ self = [t \in Threads |-> 0]
    /\ data = [t \in Threads |-> PyNone]
    /\ items = [t \in Threads |-> <<>>]
    /\ exc = [t \in Threads |-> "none"]
    /\ logged = [t \in Threads |-> "none"]
    /\ result = [t \in Threads |-> "none"]
    /\ pre = [t \in Threads |-> [prompts |-> EmptyMap, version |-> DefaultVersion]]
    /\ obs = NoObs

GlobalStep ==
    \E t \in Threads :
        \/ \E p \in Paths : InitStoreNew(t, p)
        \/ InitStoreAssign(t)
        \/ GetStoreCheck(t, "list_prompts", <<>>)
        \/ \E call \in {"has_prompt", "get_prompt"} : GetStoreCheck(t, call, KeyA)
        \/ GetStoreLazy(t)
        \/ GetStoreReturn(t)
        \/ FacadeUse(t)
        \/ LoadOpen(t)
        \/ LoadVersion(t)
        \/ LoadClear(t)
        \/ LoadInsert(t)
        \/ LoadExcept(t)

FormatIdle ==
    /\ fmtText = <<>>
    /\ fmtKwargs = <<>>
    /\ fmtResult = [kind |-> "none", value |-> <<>>]

\* A Prompt with any template text, about to be formatted with any keyword
\* arguments.
FormatInitState ==
    /\ fmtText \in Texts
    /\ fmtKwargs \in KwargsSet
    /\ fmtResult = [kind |-> "none", value |-> <<>>]

\* An empty usage table (what _init_db creates, lines 81-105).
UsageInitState ==
    /\ rows = <<>>
    /\ lastLog = "none"
    /\ lastQuery = NoQuery
    /\ acked = {}

\* The entries UsageStore.log is called with.
UsageEntries ==
    {UsageLog(i, ts, k, "unknown", "chat", NoneText, "s1", vu, TRUE, 0, NoneText) :
        i \in 1..NumIds, ts \in 1..MaxTime, k \in {KeyA, KeyB},
        vu \in {"dict:empty", "dict:unserializable"}}

\* The limits the queries are called with.
Limits == -1..NumIds

UsageStep ==
    \/ \E e \in UsageEntries, dbOk \in BOOLEAN : UsageStoreLog(e, dbOk)
    \/ \E limit \in Limits, key \in {NoneKey, KeyA} :
           UsageGetRecent(limit, key, NoneText, NoneText)
    \/ \E key \in {KeyA, KeyB} : UsageGetStats(key)
    \/ \E limit \in Limits : UsageGetTopPrompts(limit)

\* The latencies of the logged entries: not measured (0) or measured.
Latencies == {0, 4, 6}

\* The entries UsageStore.log is called with when the statistics are read,
\* each under an id not used before (as log_usage draws them).
StatEntries ==
    {UsageLog(i, ts, k, "unknown", "chat", NoneText, "s1", "dict:empty", ok, lat, NoneText) :
        i \in 1..MaxRows, ts \in 1..MaxTime, k \in {KeyA, KeyB},
        ok \in BOOLEAN, lat \in Latencies}

StatsStep ==
    \/ \E e \in StatEntries : e.id = Len(rows) + 1 /\ UsageStoreLog(e, TRUE)
    \/ \E key \in {KeyA, KeyB, KeyAB} : UsageGetStats(key)
    \/ \E limit \in Limits : UsageGetTopPrompts(limit)

\* No usage store yet (_usage_store is None, line 248), Langfuse configured or
\* not (lines 33-35).
FacadeIdle ==
    /\ ustore = "None"
    /\ langfuse = "disabled"
    /\ nextUuid = 1
    /\ luResult = [kind |-> "none", value |-> <<>>]
    /\ luWarned = FALSE
    /\ forwards = {}
    /\ luCall = NoCall

FacadeInitState ==
    /\ ustore = "None"
    /\ langfuse \in {"disabled", "unavailable", "ready"}
    /\ nextUuid = 1
    /\ luResult = [kind |-> "none", value |-> <<>>]
    /\ luWarned = FALSE
    /\ forwards = {}
    /\ luCall = NoCall

\* The prompt_text arguments log_usage is called with.
PromptTexts == {PyNone, JStr(<<>>), JStr(TextBye), JStr(TextSurr)}

FacadeStep ==
    \/ /\ \/ \E p \in Paths : InitStoreNew("t1", p)
          \/ InitStoreAssign("t1")
          \/ LoadOpen("t1")
          \/ LoadVersion("t1")
          \/ LoadClear("t1")
          \/ LoadInsert("t1")
          \/ LoadExcept("t1")
       /\ UNCHANGED <<usageVars, facadeVars>>
    \/ \E key \in {KeyA, KeyB}, ptext \in PromptTexts,
          vu \in {NoneText, "dict:empty", "dict:unserializable"},
          ts \in 1..MaxTime, dbOk \in BOOLEAN, threadOk \in BOOLEAN :
           LogUsage(key, "chat", ptext, vu, ts, dbOk, threadOk)
    \/ /\ \E f \in forwards : SendDone(f) \/ SendFail(f)
       /\ UNCHANGED <<storeVars, usageVars>>

vars == <<storeVars, fmtVars, usageVars, facadeVars>>

FormatInit == StoreInitState /\ FormatInitState /\ UsageInitState /\ FacadeIdle

FormatNext == FormatCall /\ UNCHANGED <<storeVars, usageVars, facadeVars>>

SpecFormat == FormatInit /\ [][FormatNext]_vars

GlobalNext == GlobalStep /\ UNCHANGED <<fmtVars, usageVars, facadeVars>>

GlobalInit == GlobalInitState /\ FormatIdle /\ UsageInitState /\ FacadeIdle

SpecGlobal == GlobalInit /\ [][GlobalNext]_vars

StoreNext == StoreStep /\ UNCHANGED <<fmtVars, usageVars, facadeVars>>

StoreOnlyInit == StoreInitState /\ FormatIdle /\ UsageInitState /\ FacadeIdle

SpecStore == StoreOnlyInit /\ [][StoreNext]_vars

UsageNext == UsageStep /\ UNCHANGED <<storeVars, fmtVars, facadeVars>>

UsageInit == StoreInitState /\ FormatIdle /\ UsageInitState /\ FacadeIdle

SpecUsage == UsageInit /\ [][UsageNext]_vars

StatsNext == StatsStep /\ UNCHANGED <<storeVars, fmtVars, facadeVars>>

StatsInit == StoreInitState /\ FormatIdle /\ UsageInitState /\ FacadeIdle

SpecStats == StatsInit /\ [][StatsNext]_vars

FacadeNext == FacadeStep /\ UNCHANGED fmtVars

FacadeInit ==
    /\ GlobalInitState /\ fs["p2"] = "bad_entry"
    /\ FormatIdle /\ UsageInitState /\ FacadeInitState

SpecFacade == FacadeInit /\ [][FacadeNext]_vars

\* ------------------------------------------------------- claims: PromptStore

\* The calls of PromptStore that load: init (and the constructor with a path,
\* which is init on the fresh object) and reload.
LoadCalls == {"init", "reload"}
Finished(t) == pc[t] = "idle" /\ op[t] \in LoadCalls
LoadFailed(t) == Finished(t) /\ (logged[t] = "error" \/ result[t] = "raised")

\* C1: a load that fails leaves the key-to-Prompt mapping and the version
\* string as they were before it.
C1_FailedLoadChangesNothing ==
    \A t \in Threads :
        LoadFailed(t) =>
            /\ heap[self[t]].prompts = pre[t].prompts
            /\ heap[self[t]].version = pre[t].version

\* C2: what a reader's get, has, list_keys or len returned while a load was
\* running is what the mapping before the load, or the mapping after it, gives.
C2_ReaderSeesWholeMapping ==
    Finished("t1") =>
        LET before == pre["t1"].prompts
            after == heap[1].prompts
            k == obs.key
        IN  /\ obs.call = "list_keys" =>
                   obs.ret \in {SortedKeys(DOMAIN before), SortedKeys(DOMAIN after)}
            /\ obs.call = "len" =>
                   obs.ret \in {Cardinality(DOMAIN before), Cardinality(DOMAIN after)}
            /\ obs.call = "has" =>
                   obs.ret \in {k \in DOMAIN before, k \in DOMAIN after}
            /\ obs.call = "get" =>
                   obs.ret \in {IF k \in DOMAIN before THEN before[k] ELSE PyNone,
                                IF k \in DOMAIN after THEN after[k] ELSE PyNone}

\* C6: between calls, list_keys() is the sorted key set of the prompts object
\* of the last successfully loaded file, has(k) holds iff k is in that set and
\* get(k) is absent iff k is not in it.
C6_LookupsReflectLastGoodLoad ==
    pc["t1"] = "idle" =>
        LET good == DictKeys(lastGood[1])
        IN  /\ StoreListKeys(1) = SortedKeys(good)
            /\ \A k \in Keys : StoreHas(1, k) <=> k \in good
            /\ \A k \in Keys : StoreGet(1, k) = PyNone <=> k \notin good

\* C7: init (the constructor with a path) and reload return normally whatever
\* the state of the file.
C7_LoadNeverRaises ==
    \A t \in Threads : Finished(t) => result[t] = "returned"

\* ---------------------------------------------------- claims: the singleton

LoadStages == {"load", "version", "clear", "insert", "except"}

\* Object o is inside the constructor call of some init_store.
UnderConstruction(o, pcs, ops, selfs) ==
    \E t \in Threads : ops[t] = "init_store" /\ selfs[t] = o /\ pcs[t] \in LoadStages

\* C10: init_store builds a fresh store, loads it, and only then makes it the
\* active one: no step changes a store object other than one still inside its
\* constructor, the active store is never one inside its constructor, and
\* neither is the store a facade call got from get_store().
C10_InitStoreSwapsLoadedStore ==
    [][/\ \A o \in 1..Len(heap) :
              ~UnderConstruction(o, pc, op, self) => heap'[o] = heap[o]
       /\ gstore' # 0 => ~UnderConstruction(gstore', pc', op', self')
       /\ \A t \in Threads :
              pc'[t] = "use" /\ self'[t] # 0 =>
                  ~UnderConstruction(self'[t], pc', op', self')]_vars

\* init_store has replaced an earlier active store while a facade call of the
\* other thread still holds the earlier one.
C10_Witness ==
    \E t, u \in Threads :
        /\ op[t] = "init_store" /\ pc[t] = "idle" /\ result[t] = "returned"
        /\ gstore = self[t] /\ heap[gstore].prompts # EmptyMap
        /\ pc[u] = "use" /\ self[u] # 0 /\ self[u] # gstore

\* ------------------------------------------------------ claims: Prompt.format

Supplied(kw) == {kw[j][1] : j \in 1..Len(kw)}

\* What the claims say format gives: one pass over the text in which each
\* {name} of a supplied name becomes its value and everything else stays.
RECURSIVE Substituted(_, _, _)
Substituted(text, i, kw) ==
    IF i > Len(text) THEN <<>>
    ELSE IF /\ i + 2 <= Len(text)
            /\ text[i] = "{" /\ text[i + 2] = "}"
            /\ text[i + 1] \in Supplied(kw)
         THEN KwGet(kw, text[i + 1]) \o Substituted(text, i + 3, kw)
         ELSE <<text[i]>> \o Substituted(text, i + 1, kw)

\* C8: with a non-empty mapping, format returns the text in which every
\* {name} of a supplied name is replaced by its value and all the rest,
\* other placeholders included, is unchanged.
C8_PartialFormatting ==
    fmtResult.kind # "none" /\ fmtKwargs # <<>> =>
        fmtResult = Returned(Substituted(fmtText, 1, fmtKwargs))

\* C9: format returns a string for every text and mapping (nothing is
\* raised), and where the substitution of a placeholder failed the
\* placeholder is still in the result as it was in the text.
C9_FormatNeverRaises ==
    fmtResult.kind # "none" =>
        /\ fmtResult.kind = "returned"
        /\ (fmtKwargs # <<>> /\ StrFormat(fmtText, 1, fmtKwargs, <<>>).kind = "raised") =>
               fmtResult.value = Substituted(fmtText, 1, fmtKwargs)


\* -------------------------------------------------------- claims: usage log

\* C4: every step keeps each stored row, with all its fields, where it was,
\* and leaves no two stored rows with the same id.
C4_UsageLogAppendOnly ==
    [][/\ Len(rows') >= Len(rows)
       /\ \A i \in 1..Len(rows) : rows'[i] = rows[i]
       /\ \A i, j \in 1..Len(rows') : rows'[i].id = rows'[j].id => i = j]_vars

\* A log call was refused for an id already stored, with other fields than the
\* stored row, in a table of two rows or more.
C4_Witness ==
    /\ lastLog = "IntegrityError"
    /\ Len(rows) >= 2
    /\ \E i, j \in 1..Len(rows) : rows[i].prompt_key # rows[j].prompt_key

\* Whether the arguments of get_recent leave row r in.
NotExcluded(r, key, stage, session) ==
    /\ TruthyKey(key) => r.prompt_key = key
    /\ TruthyText(stage) => r.stage = stage
    /\ TruthyText(session) => r.session_id = session

RecentObserves(r) ==
    \A limit \in Limits, key \in {NoneKey, <<>>, KeyA, KeyB},
       sess \in {NoneText, "", "s1", "s2"} :
        (NotExcluded(r, key, NoneText, sess) /\ limit >= Len(rows)) =>
            \A ret \in GetRecent(limit, key, NoneText, sess) :
                \E n \in 1..Len(ret) : ret[n] = RecentDict(r)

StatsObserves(r) ==
    GetStats(r.prompt_key).total_usage >=
        Cardinality({a \in acked : a.prompt_key = r.prompt_key})

TopObserves(r, limit) ==
    \A ret \in GetTopPrompts(limit) :
        \E n \in 1..Len(ret) :
            /\ ret[n].prompt_key = r.prompt_key
            /\ ret[n].usage_count >=
                   Cardinality({a \in acked : a.prompt_key = r.prompt_key})
            /\ ret[n].last_used >= r.timestamp

\* C5 as stated: every entry whose log call returned is in what get_recent
\* gives (no filter excluding it, limit at least the number of stored rows),
\* is counted by get_stats of its key, and its key is in what get_top_prompts
\* gives, whatever the limit.
C5_ReadYourWrites ==
    \A r \in acked :
        /\ RecentObserves(r)
        /\ StatsObserves(r)
        /\ \A limit \in Limits : TopObserves(r, limit)

\* C5 amended: the same, with get_top_prompts called with a limit that is at
\* least the number of distinct prompt keys stored (or negative: no limit).
C5_ReadYourWritesWithinLimit ==
    \A r \in acked :
        /\ RecentObserves(r)
        /\ StatsObserves(r)
        /\ \A limit \in Limits :
               (limit < 0 \/ limit >= Cardinality({rows[i].prompt_key : i \in 1..Len(rows)}))
                   => TopObserves(r, limit)

\* Two log calls have returned, two keys are stored, and get_top_prompts was
\* called with a limit that lets every key through.
C5_Witness ==
    /\ Cardinality(acked) >= 2
    /\ Cardinality({rows[i].prompt_key : i \in 1..Len(rows)}) = 2
    /\ lastQuery.call = "get_top_prompts"
    /\ lastQuery.args = <<2>>
    /\ Len(lastQuery.ret) = 2

\* ------------------------------------------------------- claims: log_usage

\* C3: no call of log_usage ends with an exception.
C3_LogUsageNeverRaises == luResult.kind # "raised"

\* C11: a step of a sender thread changes neither what log_usage returned nor
\* what is stored; and a log_usage call that stored its entry with Langfuse
\* ready returns the id of that entry whether or not the sender could be
\* started, with the sender, if started, still running at the return.
C11_SinkIsolated ==
    [][/\ (forwards' # forwards /\ nextUuid' = nextUuid) =>
              UNCHANGED <<luResult, luWarned, rows, acked, lastLog>>
       /\ (Len(rows') > Len(rows) /\ langfuse = "ready") =>
              /\ luResult' = Returned(nextUuid)
              /\ rows'[Len(rows')].id = nextUuid
              /\ \A f \in forwards' \ forwards : f.id = nextUuid /\ f.status = "running"]_vars

\* The sender of the last call has failed, another one is still running, and
\* the caller has the id of the stored entry.
C11_Witness ==
    /\ luResult.kind = "returned"
    /\ \E f \in forwards : f.id = luResult.value /\ f.status = "failed"
    /\ \E f \in forwards : f.status = "running"
    /\ \E i \in 1..Len(rows) : rows[i].id = luResult.value

\* C20: every sender that was started carries an entry that is stored, with
\* the same prompt_key and prompt_hash.
C20_ForwardOnlyAfterPersist ==
    \A f \in forwards :
        \E i \in 1..Len(rows) :
            /\ rows[i].id = f.id
            /\ rows[i].prompt_key = f.prompt_key
            /\ rows[i].prompt_hash = f.prompt_hash

\* With Langfuse ready, one call stored its entry and started a sender, and
\* the next call failed to store its entry and started none.
C20_Witness ==
    /\ langfuse = "ready"
    /\ lastLog \in {"TypeError", "OperationalError"}
    /\ luWarned
    /\ luResult.kind = "returned"
    /\ Cardinality(forwards) = 1
    /\ \A f \in forwards : f.id # luResult.value

\* ------------------------------------------------- claims: usage queries

\* The rows a call of get_recent is to return by the claim: those that match
\* every filter that was supplied (is not None).
SuppliedMatch(key, stage, session) ==
    {i \in 1..Len(rows) :
        /\ key # NoneKey => rows[i].prompt_key = key
        /\ stage # NoneText => rows[i].stage = stage
        /\ session # NoneText => rows[i].session_id = session}

\* ret is the rows numbered in S, newest first, cut to at most limit rows.
NewestOf(ret, S, limit) ==
    /\ Len(ret) <= limit
    /\ Len(ret) = limit \/ Len(ret) = Cardinality(S)
    /\ \E q \in [1..Len(ret) -> S] :
           /\ \A m, n \in 1..Len(ret) : m # n => q[m] # q[n]
           /\ \A n \in 1..Len(ret) : ret[n] = RecentDict(rows[q[n]])
           /\ \A m, n \in 1..Len(ret) :
                  m < n => rows[q[m]].timestamp >= rows[q[n]].timestamp
           /\ \A i \in S \ {q[n] : n \in 1..Len(ret)} :
                  \A n \in 1..Len(ret) : rows[q[n]].timestamp >= rows[i].timestamp

\* The limits that are a number of rows ("at most limit entries").
RowCounts == 0..NumIds

\* C12: whatever the limit and the filters, get_recent returns the stored
\* rows that match every supplied filter, newest first, at most limit of them.
C12_GetRecentFilters ==
    \A limit \in RowCounts, key \in {NoneKey, <<>>, KeyA, KeyB},
       stage \in {NoneText, "", "chat"}, sess \in {NoneText, "", "s1"} :
        \A ret \in GetRecent(limit, key, stage, sess) :
            NewestOf(ret, SuppliedMatch(key, stage, sess), limit)

\* The rows of the log calls that returned, by key.
AckedOf(key) == {a \in acked : a.prompt_key = key}

RECURSIVE SumOfLatencies(_)
SumOfLatencies(S) ==
    IF S = {} THEN 0
    ELSE LET a == CHOOSE b \in S : TRUE IN a.latency_ms + SumOfLatencies(S \ {a})

\* C13: for every key, total_usage is the number of stored entries of the key
\* and success_rate is 100 * (those with success true) / total_usage, or 0
\* when there is none.
C13_SuccessRate ==
    \A key \in Keys :
        LET total == Cardinality(AckedOf(key))
            ok == Cardinality({a \in AckedOf(key) : a.success = 1})
            st == GetStats(key)
        IN  /\ st.total_usage = total
            /\ total = 0 => st.success_rate.num = 0
            /\ total > 0 => st.success_rate.num * total = 100 * ok * st.success_rate.den

\* get_stats was called for a key with one success and one failure stored,
\* and an entry of another key besides: it gave 50.
C13_Witness ==
    /\ lastQuery.call = "get_stats"
    /\ lastQuery.ret.total_usage = 2
    /\ lastQuery.ret.success_rate = [num |-> 100, den |-> 2]
    /\ Len(rows) > 2

\* C14: for every key, avg_latency_ms is the mean of latency_ms over the
\* stored entries of the key with latency_ms > 0, or 0 when there is none;
\* total_usage counts the entries with latency_ms = 0 too.
C14_AvgLatency ==
    \A key \in Keys :
        LET timed == {a \in AckedOf(key) : a.latency_ms > 0}
            st == GetStats(key)
        IN  /\ st.total_usage = Cardinality(AckedOf(key))
            /\ timed = {} => st.avg_latency_ms.num = 0
            /\ timed # {} =>
                   st.avg_latency_ms.num * Cardinality(timed) =
                       SumOfLatencies(timed) * st.avg_latency_ms.den

\* get_stats was called for a key with a measured entry and an unmeasured one:
\* it counted two and averaged over one.
C14_Witness ==
    /\ lastQuery.call = "get_stats"
    /\ lastQuery.ret.total_usage = 2
    /\ lastQuery.ret.avg_latency_ms = [num |-> 6, den |-> 1]

\* C15: get_top_prompts(limit) gives one group per key of the log, with the
\* number of its entries, the number of them that succeeded and their
\* greatest timestamp, the groups with most entries first and at most limit
\* of them.
C15_TopPrompts ==
    \A limit \in RowCounts :
        \A ret \in GetTopPrompts(limit) :
            LET keys == {a.prompt_key : a \in acked}
                count(k) == Cardinality(AckedOf(k))
                shown == {ret[n].prompt_key : n \in 1..Len(ret)}
            IN  /\ Len(ret) = MinOf(limit, Cardinality(keys))
                /\ shown \subseteq keys
                /\ Cardinality(shown) = Len(ret)
                /\ \A n \in 1..Len(ret) :
                       LET k == ret[n].prompt_key
                       IN  /\ ret[n].usage_count = count(k)
                           /\ ret[n].success_count =
                                  Cardinality({a \in AckedOf(k) : a.success = 1})
                           /\ \A a \in AckedOf(k) : a.timestamp <= ret[n].last_used
                           /\ \E a \in AckedOf(k) : a.timestamp = ret[n].last_used
                /\ \A m, n \in 1..Len(ret) :
                       m < n => ret[m].usage_count >= ret[n].usage_count
                /\ \A k \in keys \ shown :
                       \A n \in 1..Len(ret) : ret[n].usage_count >= count(k)

\* get_top_prompts(1) was called on a log of two keys, one used twice (at two
\* times, once with success) and one used once: it gave the first.
C15_Witness ==
    /\ lastQuery.call = "get_top_prompts"
    /\ lastQuery.args = <<1>>
    /\ Len(lastQuery.ret) = 1
    /\ lastQuery.ret[1].usage_count = 2
    /\ lastQuery.ret[1].success_count = 1
    /\ lastQuery.ret[1].last_used = 2
    /\ Len(rows) = 3

\* ---------------------------------------------------- claims: prompt_hash

\* C16: the prompt_hash of a log_usage call is the digest of prompt_text when
\* the caller supplied it, else the digest of the template the active store
\* holds for the key, and "unknown" exactly when neither is there.
C16_PromptHashResolution ==
    luCall # NoCall =>
        luCall.hash = IF luCall.ptext # PyNone THEN Sha12(luCall.ptext.s)
                      ELSE IF luCall.stored # PyNone THEN Sha12(luCall.stored.s)
                      ELSE "unknown"

\* ------------------------------------------------ claims: defaults on load

\* The step in which thread t's _load returns after the info message.
LoadSucceeds(t) == pc[t] = "insert" /\ pc'[t] # "insert" /\ logged'[t] = "info"

\* The record built from file entry pd has the entry's value in each field the
\* entry gives and empty values in the rest, except that a missing source
\* is srcDefault.
FieldsDefaulted(prompt, pd, srcDefault) ==
    /\ prompt.text = DictGet(pd, "text", JStr(<<>>))
    /\ prompt.variables = DictGet(pd, "variables", JList(<<>>))
    /\ prompt.source = DictGet(pd, "source", srcDefault)
    /\ prompt.notes = DictGet(pd, "notes", JStr(<<>>))

LoadedWithDefaults(t, srcDefault) ==
    LET file == data[t]
        entries == DictGet(file, "prompts", JDict(<<>>))
        store == heap'[self[t]]
    IN  /\ store.version = DictGet(file, "version", JStr(<<"1", ".", "0">>))
        /\ DOMAIN store.prompts = DictKeys(entries)
        /\ \A k \in DictKeys(entries) :
               FieldsDefaulted(store.prompts[k], DictGet(entries, k, PyNone), srcDefault)

NothingToRead(t) ==
    Finished(t) /\ result[t] = "returned" /\ logged[t] \in {"none", "warning"}

\* C18: reload() on an unbound store, and init or reload against a path where
\* no file is, leave the mapping and the version as they were.
C18_NothingToReadChangesNothing ==
    \A t \in Threads :
        NothingToRead(t) =>
            /\ heap[self[t]].prompts = pre[t].prompts
            /\ heap[self[t]].version = pre[t].version

\* A store that holds prompts of an earlier load was bound by init to a path
\* where no file is.
C18_Witness ==
    /\ NothingToRead("t1") /\ op["t1"] = "init" /\ logged["t1"] = "warning"
    /\ fs[heap[1].path] = "missing"
    /\ heap[1].prompts # EmptyMap
    /\ heap[1].version # DefaultVersion

\* --------------------------------------------------- claims: active store

\* The active store is one that init_store built (get_store builds its store
\* without a path, line 185).
Initialized == gstore # 0 /\ heap[gstore].path # NoPath

\* C19: once init_store has made its store the active one, only the
\* assignment of a later init_store call makes another store the active one.
C19_LazyStoreNeverReplaces ==
    [][(Initialized /\ gstore' # gstore) =>
           \E t \in Threads : pc[t] = "assign" /\ pc'[t] = "idle"]_vars

\* ------------------------------------------------ claims: path and mapping

\* The mapping of object o holds only records of entries of the file its last
\* successful load read.
FromLastGoodLoad(o) ==
    \A k \in DOMAIN heap[o].prompts :
        /\ k \in DictKeys(lastGood[o])
        /\ heap[o].prompts[k] = MakePrompt(k, DictGet(lastGood[o], k, PyNone))

\* C21: between calls, a store that holds prompts is bound to the path its
\* last successful load read them from; a store bound to a path from which
\* no load has succeeded holds none.
C21_PathAndMappingConsistent ==
    \A t \in Threads :
        Finished(t) =>
            (heap[self[t]].prompts # EmptyMap =>
                 /\ goodPath[self[t]] = heap[self[t]].path
                 /\ FromLastGoodLoad(self[t]))

====
